---- MODULE Spec2Model ----
(***************************************************************************)
(* Model of controller-runtime's OpenCensus metrics layer: the client-go   *)
(* measures and tag keys, the recording adapters, the reflector and        *)
(* workqueue metrics providers, and the view catalogs of pkg/metrics and   *)
(* pkg/webhook/metrics.                                                    *)
(*                                                                         *)
(* Strings that become tag values are sequences of character codes, so     *)
(* that the tag validation and url.URL.String() are computed, not assumed. *)
(* A float64 is an integer here: every float the model draws is whole.     *)
(***************************************************************************)
EXTENDS Integers, Sequences, FiniteSets, TLC

----------------------------------------------------------------------------
(* Bounds of the model *)

\* operations of the collaborators in one behaviour: factory calls plus
\* adapter method calls
MaxOps == 4

\* at most half of them are factory calls
MaxAdapters == MaxOps \div 2

\* concurrent collaborator goroutines
Callers == {"c1", "c2"}

\* "foo", "bar" and "a<TAB>b" (a name the tag validation rejects)
NameFoo == <<102, 111, 111>>
NameBar == <<98, 97, 114>>
NameBad == <<97, 9, 98>>
Names == {NameFoo, NameBar, NameBad}

\* float64 arguments of Observe and Set
FloatValues == {3, 5}

\* "200", "500"
Code200 == <<50, 48, 48>>
Code500 == <<53, 48, 48>>
Codes == {Code200, Code500}

\* "GET"
MethodGet == <<71, 69, 84>>
Methods == {MethodGet}

\* "api" and "a<TAB>b"
HostApi == <<97, 112, 105>>
Hosts == {HostApi, NameBad}

\* verbs of the request latency observer: "GET" and "a<TAB>b"
Verbs == {MethodGet, NameBad}

\* time.Second, in nanoseconds
Second == 1000000000

\* time.Duration arguments of the latency observer
Durations == {2 * Second}

\* url.URL arguments of the latency observer; "http", "api", "/x"
URLs == {[Scheme |-> <<104, 116, 116, 112>>, Host |-> HostApi, Path |-> <<47, 120>>]}

----------------------------------------------------------------------------
(* State *)

VARIABLES
  adapters,  \* the adapter instances handed to the collaborators, in order of construction
  made,      \* per adapter instance: the factory call that returned it
  invoked,   \* the number of adapter method calls the collaborators have made
  pending,   \* per caller of a client adapter: the call it is in, once tag.New returned
  calls,     \* the calls that reached the runtime's recording entry points, in order
  registered, \* the views registered with the runtime by view.Register
  regErrs    \* the names of the views view.Register has refused

vars == <<adapters, made, invoked, pending, calls, registered, regErrs>>

----------------------------------------------------------------------------
(* Measures: stats.Int64 / stats.Float64 declarations *)

Int64Measure(name, unit) == [name |-> name, kind |-> "Int64", unit |-> unit]
Float64Measure(name, unit) == [name |-> name, kind |-> "Float64", unit |-> unit]

UnitNone == "1"

MeasureRequestLatency == Float64Measure("sigs.kubernetes.io/controller-runtime/measures/rest_client_request_latency_seconds", "s")
MeasureRequestResult == Int64Measure("sigs.kubernetes.io/controller-runtime/measures/rest_client_requests_total", UnitNone)
MeasureListsTotal == Int64Measure("sigs.kubernetes.io/controller-runtime/measures/reflector_lists_total", UnitNone)
MeasureListsDuration == Float64Measure("sigs.kubernetes.io/controller-runtime/measures/reflector_list_duration_seconds", UnitNone)
MeasureItemsPerList == Float64Measure("sigs.kubernetes.io/controller-runtime/measures/reflector_items_per_list", UnitNone)
MeasureWatchesTotal == Int64Measure("sigs.kubernetes.io/controller-runtime/measures/reflector_watches_total", UnitNone)
MeasureShortWatchesTotal == Int64Measure("sigs.kubernetes.io/controller-runtime/measures/reflector_short_watches_total", UnitNone)
MeasureWatchDuration == Float64Measure("sigs.kubernetes.io/controller-runtime/measures/reflector_watch_duration_seconds", UnitNone)
MeasureItemsPerWatch == Float64Measure("sigs.kubernetes.io/controller-runtime/measures/reflector_items_per_watch", UnitNone)
MeasureLastResourceVersion == Float64Measure("sigs.kubernetes.io/controller-runtime/measures/reflector_last_resource_version", UnitNone)
MeasureDepth == Int64Measure("sigs.kubernetes.io/controller-runtime/measures/workqueue_depth", UnitNone)
MeasureAdds == Int64Measure("sigs.kubernetes.io/controller-runtime/measures/workqueue_adds_total", UnitNone)
MeasureLatency == Float64Measure("sigs.kubernetes.io/controller-runtime/measures/workqueue_queue_latency_seconds", "s")
MeasureWorkDuration == Float64Measure("sigs.kubernetes.io/controller-runtime/measures/workqueue_work_duration_seconds", "s")
MeasureRetries == Int64Measure("sigs.kubernetes.io/controller-runtime/measures/workqueue_retries_total", "s")
MeasureLongestRunning == Float64Measure("sigs.kubernetes.io/controller-runtime/measures/workqueue_longest_running_processor_microseconds", "us")
MeasureUnfinishedWork == Float64Measure("sigs.kubernetes.io/controller-runtime/measures/workqueue_unfinished_work_seconds", "s")

\* pkg/webhook/metrics
WebhookMeasureTotalRequests == Int64Measure("sigs.kubernetes.io/controller-runtime/measures/webhook_requests_total", UnitNone)
WebhookMeasureRequestLatency == Float64Measure("sigs.kubernetes.io/controller-runtime/measures/webhook_latency_seconds", "s")

\* the var block of the client-go metrics package, in order of declaration
ClientMeasures ==
  << MeasureRequestLatency, MeasureRequestResult, MeasureListsTotal, MeasureListsDuration,
     MeasureItemsPerList, MeasureWatchesTotal, MeasureShortWatchesTotal, MeasureWatchDuration,
     MeasureItemsPerWatch, MeasureLastResourceVersion, MeasureDepth, MeasureAdds,
     MeasureLatency, MeasureWorkDuration, MeasureRetries, MeasureLongestRunning,
     MeasureUnfinishedWork >>

\* the var block of pkg/webhook/metrics
WebhookMeasures == << WebhookMeasureTotalRequests, WebhookMeasureRequestLatency >>

----------------------------------------------------------------------------
(* Tag keys *)

TagVerb == "verb"
TagURL == "url"
TagCode == "code"
TagMethod == "method"
TagHost == "host"
TagName == "name"
TagWebhook == "webhook"
TagSucceeded == "succeeded"

----------------------------------------------------------------------------
(* The tag runtime as the adapters use it: tag.Insert, tag.New *)

\* the longest tag value the runtime accepts
maxKeyLength == 255

\* a tag value is at most maxKeyLength printable US-ASCII characters
checkValue(v) == /\ Len(v) <= maxKeyLength
                 /\ \A i \in 1..Len(v) : v[i] >= 32 /\ v[i] <= 126

\* tag.Insert(k, v): a mutator
Insert(k, v) == [key |-> k, value |-> v]

\* context.Background(): a context without tags
Background == <<>>

\* Applying one Insert mutator to a tag map: the key is added unless it is
\* already there; an invalid value is an error.
Mutate(m, mut) ==
  IF ~checkValue(mut.value) THEN [tags |-> m, err |-> TRUE]
  ELSE IF mut.key \in DOMAIN m THEN [tags |-> m, err |-> FALSE]
  ELSE [tags |-> (mut.key :> mut.value) @@ m, err |-> FALSE]

RECURSIVE ApplyMutators(_, _, _)
ApplyMutators(m, mutators, i) ==
  IF i > Len(mutators) THEN [tags |-> m, err |-> FALSE]
  ELSE LET r == Mutate(m, mutators[i])
       IN IF r.err THEN r ELSE ApplyMutators(r.tags, mutators, i + 1)

\* tag.New(ctx, mutators...): the new context, or the incoming context and
\* an error when a mutator fails.
tagNew(ctx, mutators) ==
  LET r == ApplyMutators(ctx, mutators, 1)
  IN IF r.err THEN [ctx |-> ctx, err |-> TRUE] ELSE [ctx |-> r.tags, err |-> FALSE]

----------------------------------------------------------------------------
(* Conversions *)

\* time.Duration.Seconds(): whole seconds plus the nanosecond remainder
Seconds(d) ==
  LET sec == d \div Second
      nsec == d % Second
  IN sec + (nsec \div Second)

\* url.URL.String() for a URL with scheme, host and path
URLString(u) == u.Scheme \o <<58, 47, 47>> \o u.Host \o u.Path

\* Measure.M(v): a measurement of v against the measure
M(measure, v) == [measure |-> measure.name, value |-> v]

----------------------------------------------------------------------------
(* Adapters *)

latencyAdapter(metric) == [type |-> "latencyAdapter", mutators |-> <<>>, measure |-> metric]
resultAdapter(metric) == [type |-> "resultAdapter", mutators |-> <<>>, measure |-> metric]
intMetric(mutators, measure) == [type |-> "intMetric", mutators |-> mutators, measure |-> measure]
floatMetric(mutators, measure) == [type |-> "floatMetric", mutators |-> mutators, measure |-> measure]

\* What a method hands to the runtime: the entry point it calls, the tag
\* mutators (its own for tag.New, or the ones passed to RecordWithTags) and
\* the measurement.
RuntimeCall(entry, mutators, ms) == [entry |-> entry, mutators |-> mutators, ms |-> ms]

\* mutant: the URL tag is left out
latencyAdapter_Observe_NoURL(a, verb, u, latency) ==
  RuntimeCall("Record", <<Insert(TagVerb, verb)>>, M(a.measure, Seconds(latency)))

latencyAdapter_Observe(a, verb, u, latency) ==
  RuntimeCall("Record",
              <<Insert(TagVerb, verb), Insert(TagURL, URLString(u))>>,
              M(a.measure, Seconds(latency)))

\* mutant: the code and the method are inserted under each other's key
resultAdapter_Increment_Swapped(a, code, method, host) ==
  RuntimeCall("Record",
              <<Insert(TagCode, method), Insert(TagMethod, code), Insert(TagHost, host)>>,
              M(a.measure, 1))

resultAdapter_Increment(a, code, method, host) ==
  RuntimeCall("Record",
              <<Insert(TagCode, code), Insert(TagMethod, method), Insert(TagHost, host)>>,
              M(a.measure, 1))

intMetric_Inc(m) == RuntimeCall("RecordWithTags", m.mutators, M(m.measure, 1))

\* mutant: Dec records +1, as Inc does
intMetric_Dec_Positive(m) == RuntimeCall("RecordWithTags", m.mutators, M(m.measure, 1))

intMetric_Dec(m) == RuntimeCall("RecordWithTags", m.mutators, M(m.measure, -1))

\* mutant: the observation is recorded as a count of one
floatMetric_Observe_One(m, v) == RuntimeCall("RecordWithTags", m.mutators, M(m.measure, 1))

floatMetric_Observe(m, v) == RuntimeCall("RecordWithTags", m.mutators, M(m.measure, v))

\* mutant: Set adds to the value recorded last
floatMetric_Set_Adds(m, v) ==
  RuntimeCall("RecordWithTags", m.mutators,
              M(m.measure, v + (IF calls = <<>> THEN 0 ELSE calls[Len(calls)].value)))

floatMetric_Set(m, v) == floatMetric_Observe(m, v)

----------------------------------------------------------------------------
(* Providers *)

\* reflectorMetricsProvider
\* mutant: the adapter is tagged with a fixed name
NewListsMetric_FixedName(name) == intMetric(<<Insert(TagName, NameFoo)>>, MeasureListsTotal)

NewListsMetric(name) == intMetric(<<Insert(TagName, name)>>, MeasureListsTotal)
NewListDurationMetric(name) == floatMetric(<<Insert(TagName, name)>>, MeasureListsDuration)
NewItemsInListMetric(name) == floatMetric(<<Insert(TagName, name)>>, MeasureItemsPerList)
NewWatchesMetric(name) == intMetric(<<Insert(TagName, name)>>, MeasureWatchesTotal)
NewShortWatchesMetric(name) == intMetric(<<Insert(TagName, name)>>, MeasureShortWatchesTotal)
NewWatchDurationMetric(name) == floatMetric(<<Insert(TagName, name)>>, MeasureWatchDuration)
NewItemsInWatchMetric(name) == floatMetric(<<Insert(TagName, name)>>, MeasureItemsPerWatch)
NewLastResourceVersionMetric(name) == floatMetric(<<Insert(TagName, name)>>, MeasureLastResourceVersion)

\* workqueueMetricsProvider
\* mutant: the provider numbers the names it hands out
NewDepthMetric_Numbered(name) ==
  intMetric(<<Insert(TagName, name \o <<48 + Len(adapters)>>)>>, MeasureDepth)

NewDepthMetric(name) == intMetric(<<Insert(TagName, name)>>, MeasureDepth)
NewAddsMetric(name) == intMetric(<<Insert(TagName, name)>>, MeasureAdds)
NewLatencyMetric(name) == floatMetric(<<Insert(TagName, name)>>, MeasureLatency)
NewWorkDurationMetric(name) == floatMetric(<<Insert(TagName, name)>>, MeasureWorkDuration)
NewRetriesMetric(name) == intMetric(<<Insert(TagName, name)>>, MeasureRetries)
NewLongestRunningProcessorMicrosecondsMetric(name) == floatMetric(<<Insert(TagName, name)>>, MeasureLongestRunning)
NewUnfinishedWorkSecondsMetric(name) == floatMetric(<<Insert(TagName, name)>>, MeasureUnfinishedWork)

----------------------------------------------------------------------------
(* Views: pkg/metrics/default_views.go and pkg/webhook/metrics *)

\* view.View{Name, Measure, Aggregation, TagKeys}; the bucket boundaries of
\* a distribution are not part of its identity here
View(name, measure, aggregation, tagKeys) ==
  [Name |-> name, Measure |-> measure, Aggregation |-> aggregation, TagKeys |-> tagKeys]

ViewRequestLatency == View("rest_client_request_latency_seconds", MeasureRequestLatency, "Distribution", <<TagVerb, TagURL>>)
ViewRequestResult == View("rest_client_requests_total", MeasureRequestResult, "Count", <<TagCode, TagMethod, TagHost>>)
ViewListsTotal == View("reflector_lists_total", MeasureListsTotal, "Count", <<TagName>>)
ViewListsDuration == View("reflector_list_duration_seconds", MeasureListsDuration, "Distribution", <<TagName>>)
ViewItemsPerList == View("reflector_items_per_list", MeasureItemsPerList, "Distribution", <<TagName>>)
ViewWatchesTotal == View("reflector_watches_total", MeasureWatchesTotal, "Count", <<TagName>>)
ViewShortWatchesTotal == View("reflector_short_watches_total", MeasureShortWatchesTotal, "Count", <<TagName>>)
ViewWatchesDuration == View("reflector_watch_duration_seconds", MeasureWatchDuration, "Distribution", <<TagName>>)
ViewItemsPerWatch == View("reflector_items_per_watch", MeasureItemsPerWatch, "Distribution", <<TagName>>)
ViewLastResourceVersion == View("reflector_last_resource_version", MeasureLastResourceVersion, "LastValue", <<TagName>>)
ViewDepth == View("workqueue_depth", MeasureDepth, "LastValue", <<TagName>>)
ViewAdds == View("workqueue_adds_total", MeasureAdds, "Count", <<TagName>>)
ViewLatency == View("workqueue_queue_latency_seconds", MeasureLatency, "Distribution", <<TagName>>)
ViewWorkDuration == View("workqueue_work_duration_seconds", MeasureWorkDuration, "Distribution", <<TagName>>)
ViewRetries == View("workqueue_retries_total", MeasureRetries, "Count", <<TagName>>)
ViewLongestRunning == View("workqueue_longest_running_processor_microseconds", MeasureLongestRunning, "LastValue", <<TagName>>)
ViewUnfinishedWork == View("workqueue_unfinished_work_seconds", MeasureUnfinishedWork, "LastValue", <<TagName>>)

\* mutant: the depth view is left out of the list
DefaultViews_NoDepth ==
  << ViewRequestLatency, ViewRequestResult, ViewListsTotal, ViewListsDuration,
     ViewItemsPerList, ViewWatchesTotal, ViewShortWatchesTotal, ViewWatchesDuration,
     ViewItemsPerWatch, ViewLastResourceVersion, ViewAdds, ViewLatency,
     ViewWorkDuration, ViewRetries, ViewLongestRunning, ViewUnfinishedWork >>

DefaultViews ==
  << ViewRequestLatency, ViewRequestResult, ViewListsTotal, ViewListsDuration,
     ViewItemsPerList, ViewWatchesTotal, ViewShortWatchesTotal, ViewWatchesDuration,
     ViewItemsPerWatch, ViewLastResourceVersion, ViewDepth, ViewAdds, ViewLatency,
     ViewWorkDuration, ViewRetries, ViewLongestRunning, ViewUnfinishedWork >>

\* pkg/webhook/metrics
WebhookViewTotalRequests == View("controller_runtime_webhook_requests_total", WebhookMeasureTotalRequests, "Count", <<TagWebhook, TagSucceeded>>)
\* mutant: the webhook latency view takes the name of the client-go view that
\* has the same Go identifier
WebhookViewRequestLatency_ClientName == View("rest_client_request_latency_seconds", WebhookMeasureRequestLatency, "Distribution", <<TagWebhook>>)

WebhookViewRequestLatency == View("controller_runtime_webhook_latency_seconds", WebhookMeasureRequestLatency, "Distribution", <<TagWebhook>>)

WebhookDefaultViews == << WebhookViewTotalRequests, WebhookViewRequestLatency >>

\* the views the client-go metrics package declares, in order of declaration
ClientViews ==
  << ViewRequestLatency, ViewRequestResult, ViewListsTotal, ViewListsDuration,
     ViewItemsPerList, ViewWatchesTotal, ViewShortWatchesTotal, ViewWatchesDuration,
     ViewItemsPerWatch, ViewLastResourceVersion, ViewDepth, ViewAdds, ViewLatency,
     ViewWorkDuration, ViewRetries, ViewLongestRunning, ViewUnfinishedWork >>

\* the views pkg/webhook/metrics declares
WebhookViews == << WebhookViewTotalRequests, WebhookViewRequestLatency >>

Range(s) == {s[i] : i \in DOMAIN s}

----------------------------------------------------------------------------
(* Initial state *)

NoCall == [op |-> "none"]

\* init(): clientmetrics.Register is handed the two client adapters; the
\* providers are stateless.
Init ==
  /\ adapters = << latencyAdapter(MeasureRequestLatency), resultAdapter(MeasureRequestResult) >>
  /\ made = << [factory |-> "init", name |-> <<>>], [factory |-> "init", name |-> <<>>] >>
  /\ invoked = 0
  /\ pending = [c \in Callers |-> NoCall]
  /\ calls = <<>>
  /\ registered = {}
  /\ regErrs = {}

InFlight == {c \in Callers : pending[c] # NoCall}

\* adapters handed out by the providers
Constructed == Len(adapters) - 2

Ops == Constructed + Len(calls) + Cardinality(InFlight)

----------------------------------------------------------------------------
(* The collaborators obtain adapters from the providers *)

Construct(factory, name, a) ==
  /\ Ops < MaxOps
  /\ Constructed < MaxAdapters
  /\ adapters' = Append(adapters, a)
  /\ made' = Append(made, [factory |-> factory, name |-> name])
  /\ UNCHANGED <<invoked, pending, calls, registered, regErrs>>

CallNewListsMetric == \E n \in Names : Construct("NewListsMetric", n, NewListsMetric(n))
CallNewListDurationMetric == \E n \in Names : Construct("NewListDurationMetric", n, NewListDurationMetric(n))
CallNewItemsInListMetric == \E n \in Names : Construct("NewItemsInListMetric", n, NewItemsInListMetric(n))
CallNewWatchesMetric == \E n \in Names : Construct("NewWatchesMetric", n, NewWatchesMetric(n))
CallNewShortWatchesMetric == \E n \in Names : Construct("NewShortWatchesMetric", n, NewShortWatchesMetric(n))
CallNewWatchDurationMetric == \E n \in Names : Construct("NewWatchDurationMetric", n, NewWatchDurationMetric(n))
CallNewItemsInWatchMetric == \E n \in Names : Construct("NewItemsInWatchMetric", n, NewItemsInWatchMetric(n))
CallNewLastResourceVersionMetric == \E n \in Names : Construct("NewLastResourceVersionMetric", n, NewLastResourceVersionMetric(n))
CallNewDepthMetric == \E n \in Names : Construct("NewDepthMetric", n, NewDepthMetric(n))
CallNewAddsMetric == \E n \in Names : Construct("NewAddsMetric", n, NewAddsMetric(n))
CallNewLatencyMetric == \E n \in Names : Construct("NewLatencyMetric", n, NewLatencyMetric(n))
CallNewWorkDurationMetric == \E n \in Names : Construct("NewWorkDurationMetric", n, NewWorkDurationMetric(n))
CallNewRetriesMetric == \E n \in Names : Construct("NewRetriesMetric", n, NewRetriesMetric(n))
CallNewLongestRunningProcessorMicrosecondsMetric == \E n \in Names : Construct("NewLongestRunningProcessorMicrosecondsMetric", n, NewLongestRunningProcessorMicrosecondsMetric(n))
CallNewUnfinishedWorkSecondsMetric == \E n \in Names : Construct("NewUnfinishedWorkSecondsMetric", n, NewUnfinishedWorkSecondsMetric(n))

----------------------------------------------------------------------------
(* view.Register(metrics.DefaultViews...): the runtime's view registry *)

\* One view of a Register call: a view of a name not yet registered is
\* registered; registering the same view again changes nothing; a different
\* view under a registered name is refused.
tryRegisterView(w, v) ==
  IF \E x \in w.views : x.Name = v.Name
  THEN IF v \in w.views THEN w ELSE [w EXCEPT !.errs = @ \cup {v.Name}]
  ELSE [w EXCEPT !.views = @ \cup {v}]

\* view.Register(views...): the views in order; a refused view does not stop
\* the registration of the others
RECURSIVE RegisterViews(_, _, _)
RegisterViews(w, views, i) ==
  IF i > Len(views) THEN w
  ELSE RegisterViews(tryRegisterView(w, views[i]), views, i + 1)

viewRegister(views) ==
  LET w == RegisterViews([views |-> registered, errs |-> regErrs], views, 1)
  IN /\ registered' = w.views
     /\ regErrs' = w.errs
     /\ UNCHANGED <<adapters, made, invoked, pending, calls>>

\* view.Register(metrics.DefaultViews...) of the client-go metrics package
RegisterDefaultViews == viewRegister(DefaultViews)

\* view.Register(metrics.DefaultViews...) of pkg/webhook/metrics
RegisterWebhookDefaultViews == viewRegister(WebhookDefaultViews)

\* the registered views a measurement of this measure is reported to
ViewsOf(measure) == {v.Name : v \in {x \in registered : x.Measure.name = measure}}

----------------------------------------------------------------------------
(* The runtime's recording entry points *)

\* stats.Record(ctx, ms): ms is recorded under the tags of ctx.
statsRecord(ctx, ms) == [tags |-> ctx, err |-> FALSE, recorded |-> TRUE]

\* stats.RecordWithTags(ctx, mutators, ms): tag.New, then Record under the
\* new context; the error of tag.New is returned without recording.
statsRecordWithTags(ctx, mutators, ms) ==
  LET t == tagNew(ctx, mutators)
  IN IF t.err THEN [tags |-> t.ctx, err |-> TRUE, recorded |-> FALSE]
     ELSE statsRecord(t.ctx, ms)

\* The entry of the call log: method op of adapter i, called with the
\* arguments arg, made the runtime call rc, whose outcome was out.
LogEntry(i, op, arg, rc, out) ==
  [op |-> op, adapter |-> i, arg |-> arg, entry |-> rc.entry, mutators |-> rc.mutators,
   measure |-> rc.ms.measure, value |-> rc.ms.value,
   tags |-> out.tags, err |-> out.err, recorded |-> out.recorded,
   views |-> IF out.recorded THEN ViewsOf(rc.ms.measure) ELSE {}]

----------------------------------------------------------------------------
(* intMetric and floatMetric: one call of stats.RecordWithTags *)

\* mutant: a call the runtime rejects is made again
Call_Retry(i, op, arg, rc) ==
  LET out == statsRecordWithTags(Background, rc.mutators, rc.ms)
      e == LogEntry(i, op, arg, rc, out)
  IN /\ Ops < MaxOps
     /\ calls' = IF out.err THEN calls \o <<e, e>> ELSE Append(calls, e)
     /\ invoked' = invoked + 1
     /\ UNCHANGED <<adapters, made, pending, registered, regErrs>>

Call(i, op, arg, rc) ==
  /\ Ops < MaxOps
  /\ calls' = Append(calls,
       LogEntry(i, op, arg, rc, statsRecordWithTags(Background, rc.mutators, rc.ms)))
  /\ invoked' = invoked + 1
  /\ UNCHANGED <<adapters, made, pending, registered, regErrs>>

Inc ==
  \E i \in DOMAIN adapters :
    /\ adapters[i].type = "intMetric"
    /\ Call(i, "Inc", <<>>, intMetric_Inc(adapters[i]))

Dec ==
  \E i \in DOMAIN adapters :
    /\ adapters[i].type = "intMetric"
    /\ Call(i, "Dec", <<>>, intMetric_Dec(adapters[i]))

Observe ==
  \E i \in DOMAIN adapters, v \in FloatValues :
    /\ adapters[i].type = "floatMetric"
    /\ Call(i, "Observe", <<v>>, floatMetric_Observe(adapters[i], v))

Set ==
  \E i \in DOMAIN adapters, v \in FloatValues :
    /\ adapters[i].type = "floatMetric"
    /\ Call(i, "Set", <<v>>, floatMetric_Set(adapters[i], v))

----------------------------------------------------------------------------
(* latencyAdapter and resultAdapter: tag.New, its error dropped, then       *)
(* stats.Record under the context it returned.  The two statements run on   *)
(* the caller's goroutine, and callers interleave between them.             *)

\* Caller c enters method op of client adapter i: ctx, _ := tag.New(...)
Enter(c, i, op, arg, rc) ==
  /\ pending[c] = NoCall
  /\ Ops < MaxOps
  /\ pending' = [pending EXCEPT ![c] =
                   [op |-> op, adapter |-> i, arg |-> arg, rc |-> rc,
                    ctx |-> tagNew(Background, rc.mutators).ctx,
                    err |-> tagNew(Background, rc.mutators).err]]
  /\ invoked' = invoked + 1
  /\ UNCHANGED <<adapters, made, calls, registered, regErrs>>

LatencyObserve(c) ==
  \E i \in DOMAIN adapters, verb \in Verbs, u \in URLs, latency \in Durations :
    /\ adapters[i].type = "latencyAdapter"
    /\ Enter(c, i, "Observe", <<verb, u, latency>>, latencyAdapter_Observe(adapters[i], verb, u, latency))

ResultIncrement(c) ==
  \E i \in DOMAIN adapters, code \in Codes, method \in Methods, host \in Hosts :
    /\ adapters[i].type = "resultAdapter"
    /\ Enter(c, i, "Increment", <<code, method, host>>, resultAdapter_Increment(adapters[i], code, method, host))

\* mutant: after a failed tag.New the client adapter is taken out of service
Record_Unregister(c) ==
  /\ pending[c] # NoCall
  /\ calls' = Append(calls,
       LET p == pending[c]
           out == statsRecord(p.ctx, p.rc.ms)
       IN LogEntry(p.adapter, p.op, p.arg, p.rc, [out EXCEPT !.err = p.err]))
  /\ pending' = [pending EXCEPT ![c] = NoCall]
  /\ adapters' = IF pending[c].err
                 THEN [adapters EXCEPT ![pending[c].adapter].type = "none"]
                 ELSE adapters
  /\ UNCHANGED <<made, invoked, registered, regErrs>>

\* stats.Record(ctx, a.metric.M(...)), and the method returns
Record(c) ==
  /\ pending[c] # NoCall
  /\ calls' = Append(calls,
       LET p == pending[c]
           out == statsRecord(p.ctx, p.rc.ms)
       IN LogEntry(p.adapter, p.op, p.arg, p.rc, [out EXCEPT !.err = p.err]))
  /\ pending' = [pending EXCEPT ![c] = NoCall]
  /\ UNCHANGED <<adapters, made, invoked, registered, regErrs>>

----------------------------------------------------------------------------
(* Specifications *)

\* the reflector and workqueue providers and their adapters
Next ==
  \/ CallNewListsMetric
  \/ CallNewListDurationMetric
  \/ CallNewItemsInListMetric
  \/ CallNewWatchesMetric
  \/ CallNewShortWatchesMetric
  \/ CallNewWatchDurationMetric
  \/ CallNewItemsInWatchMetric
  \/ CallNewLastResourceVersionMetric
  \/ CallNewDepthMetric
  \/ CallNewAddsMetric
  \/ CallNewLatencyMetric
  \/ CallNewWorkDurationMetric
  \/ CallNewRetriesMetric
  \/ CallNewLongestRunningProcessorMicrosecondsMetric
  \/ CallNewUnfinishedWorkSecondsMetric
  \/ Inc
  \/ Dec
  \/ Observe
  \/ Set

Spec == Init /\ [][Next]_vars

\* the two client adapters
NextClient ==
  \/ \E c \in Callers : LatencyObserve(c)
  \/ \E c \in Callers : ResultIncrement(c)
  \/ \E c \in Callers : Record(c)

SpecClient == Init /\ [][NextClient]_vars

\* every adapter of the package: the client adapters and one provider adapter,
\* in behaviours one operation short of MaxOps
NextAll ==
  \/ Next /\ Constructed' <= 1 /\ Ops' < MaxOps
  \/ NextClient /\ Ops' < MaxOps

SpecAll == Init /\ [][NextAll]_vars

\* the process: both DefaultViews lists are registered at any time, before,
\* between or after the adapters' records, in behaviours two operations short
\* of MaxOps
NextViews ==
  \/ RegisterDefaultViews
  \/ RegisterWebhookDefaultViews
  \/ Next /\ Constructed' <= 1 /\ Ops' < MaxOps - 1
  \/ NextClient /\ Ops' < MaxOps - 1

SpecViews == Init /\ [][NextViews]_vars

----------------------------------------------------------------------------
(* What the views report, from the measurements the runtime recorded *)

\* the row of view v a record with these tags falls in: its value for each
\* tag key of the view, a missing tag being the empty value
Signature(v, tags) ==
  [k \in Range(v.TagKeys) |-> IF k \in DOMAIN tags THEN tags[k] ELSE <<>>]

\* the log positions whose measurement the runtime recorded into row sig of v
RowEntries(v, sig) ==
  {i \in DOMAIN calls : /\ calls[i].recorded
                        /\ calls[i].measure = v.Measure.name
                        /\ Signature(v, calls[i].tags) = sig}

Max(S) == CHOOSE x \in S : \A y \in S : y <= x

\* view.Count(): the number of measurements recorded in the row
CountData(v, sig) == Cardinality(RowEntries(v, sig))

\* view.LastValue(): the value of the last measurement recorded in the row
LastValueData(v, sig) == calls[Max(RowEntries(v, sig))].value

\* the row of a view grouped by name alone
NameRow(n) == (TagName :> n)

----------------------------------------------------------------------------
(* Helpers of the claims *)

ProviderMade(i) == made[i].factory # "init"

\* the log positions of the calls made on adapter i
CallsOn(i) == {j \in DOMAIN calls : calls[j].adapter = i}

RECURSIVE SumValues(_)
SumValues(S) ==
  IF S = {} THEN 0
  ELSE LET j == CHOOSE x \in S : TRUE
       IN calls[j].value + SumValues(S \ {j})

----------------------------------------------------------------------------
(* C1 *)

\* C1: every call that an adapter returned by a provider factory for name n
\* hands to the runtime carries the tag mutator (name -> n) and no other
\* name, and every measurement recorded from it is tagged name = n and
\* nothing else, whatever the order in which calls on adapters of different
\* names reach the runtime.
C1_NameTagInvariant ==
  \A j \in DOMAIN calls :
    ProviderMade(calls[j].adapter) =>
      LET n == made[calls[j].adapter].name
          e == calls[j]
      IN /\ \E k \in DOMAIN e.mutators : e.mutators[k] = Insert(TagName, n)
         /\ \A k \in DOMAIN e.mutators :
              e.mutators[k].key = TagName => e.mutators[k].value = n
         /\ e.recorded => e.tags = NameRow(n)

\* C1 witness: calls on adapters of two different names were recorded,
\* the later-built adapter's first.
C1_Witness ==
  \E j, k \in DOMAIN calls :
    /\ j < k
    /\ calls[j].recorded /\ calls[k].recorded
    /\ calls[j].adapter > calls[k].adapter
    /\ ProviderMade(calls[k].adapter)
    /\ made[calls[j].adapter].name # made[calls[k].adapter].name

----------------------------------------------------------------------------
(* C2 *)

\* C2: for every intMetric adapter, each Inc handed the runtime one
\* measurement of +1 and each Dec one of -1, against the adapter's Int64
\* measure, so the values handed over sum to (number of Inc) - (number of Dec).
C2_IncDecNetDelta ==
  \A i \in DOMAIN adapters :
    adapters[i].type = "intMetric" =>
      LET incs == {j \in CallsOn(i) : calls[j].op = "Inc"}
          decs == {j \in CallsOn(i) : calls[j].op = "Dec"}
      IN /\ CallsOn(i) = incs \cup decs
         /\ adapters[i].measure.kind = "Int64"
         /\ \A j \in incs : calls[j].value = 1 /\ calls[j].measure = adapters[i].measure.name
         /\ \A j \in decs : calls[j].value = -1 /\ calls[j].measure = adapters[i].measure.name
         /\ SumValues(CallsOn(i)) = Cardinality(incs) - Cardinality(decs)

\* C2 witness: an adapter on which Inc was called twice and Dec once
C2_Witness ==
  \E i \in DOMAIN adapters :
    /\ Cardinality({j \in CallsOn(i) : calls[j].op = "Inc"}) = 2
    /\ Cardinality({j \in CallsOn(i) : calls[j].op = "Dec"}) = 1

----------------------------------------------------------------------------
(* C3 *)

\* the number of calls of method op on the adapters NewDepthMetric returned for n
DepthCalls(n, op) ==
  Cardinality({j \in DOMAIN calls :
                 /\ made[calls[j].adapter] = [factory |-> "NewDepthMetric", name |-> n]
                 /\ calls[j].op = op})

\* C3: the value that the LastValue view ViewDepth reports for name n is
\* the depth of the queue: the number of Inc calls minus the number of Dec
\* calls on the adapters NewDepthMetric(n) returned.
C3_DepthViewIsDepth ==
  \A n \in Names :
    RowEntries(ViewDepth, NameRow(n)) # {} =>
      LastValueData(ViewDepth, NameRow(n)) = DepthCalls(n, "Inc") - DepthCalls(n, "Dec")

----------------------------------------------------------------------------
(* C4 *)

\* the default views that aggregate by LastValue
LastValueViews == {v \in Range(DefaultViews) : v.Aggregation = "LastValue"}

\* the log positions of the calls made, for the measure of view v, on the
\* adapters the providers returned for name n
CallsFor(v, n) ==
  {j \in DOMAIN calls : /\ ProviderMade(calls[j].adapter)
                        /\ made[calls[j].adapter].name = n
                        /\ adapters[calls[j].adapter].measure = v.Measure}

\* the last call for (v, n) was Set(b), and the view reports b for n
ReportsLastSet(v, n) ==
  LET last == calls[Max(CallsFor(v, n))]
  IN last.op = "Set" =>
       /\ RowEntries(v, NameRow(n)) # {}
       /\ LastValueData(v, NameRow(n)) = last.arg[1]

\* C4 as stated: for every LastValue view and every name, once the
\* last call on the name's adapters for the view's measure is a Set(b), the
\* view reports b for the name.
C4_LastValueAfterSet_AnyName ==
  \A v \in LastValueViews : \A n \in Names :
    CallsFor(v, n) # {} => ReportsLastSet(v, n)

\* C4 amended: for every LastValue view and every name that is a valid tag
\* value, once the last call on the name's adapters for the view's measure
\* is a Set(b), the view reports b for the name (not the sum of the values
\* set, and not an earlier one); for a name the runtime rejects as a tag
\* value the Set calls record nothing and the view has no row for the name.
C4_LastValueAfterSet ==
  \A v \in LastValueViews : \A n \in Names :
    /\ (checkValue(n) /\ CallsFor(v, n) # {}) => ReportsLastSet(v, n)
    /\ ~checkValue(n) => RowEntries(v, NameRow(n)) = {}

\* C4 witness: Set(5) and then Set(3) were called on an adapter of a
\* LastValue view, and the view reports 3 for the adapter's name.
C4_Witness ==
  \E v \in LastValueViews : \E n \in Names : \E j, k \in CallsFor(v, n) :
    /\ j < k /\ k = Max(CallsFor(v, n))
    /\ calls[j].adapter = calls[k].adapter
    /\ calls[j].op = "Set" /\ calls[j].arg = <<5>>
    /\ calls[k].op = "Set" /\ calls[k].arg = <<3>>
    /\ RowEntries(v, NameRow(n)) # {}
    /\ LastValueData(v, NameRow(n)) = 3

----------------------------------------------------------------------------
(* C5 *)

\* the row of ViewRequestResult for a code, a method and a host
ResultRow(code, method, host) ==
  (TagCode :> code) @@ (TagMethod :> method) @@ (TagHost :> host)

\* the completed Increment calls made with this combination
IncrementsWith(code, method, host) ==
  {j \in DOMAIN calls : /\ calls[j].op = "Increment"
                        /\ calls[j].arg = <<code, method, host>>}

\* C5 as stated: the Count view over the request-result measure reports,
\* for each combination of code, method and host, the number of Increment
\* calls made with that combination.
C5_CountPerCombination_AnyValue ==
  \A code \in Codes, method \in Methods, host \in Hosts :
    CountData(ViewRequestResult, ResultRow(code, method, host))
      = Cardinality(IncrementsWith(code, method, host))

\* the completed Increment calls one of whose values the runtime rejects
RejectedIncrements ==
  {j \in DOMAIN calls : /\ calls[j].op = "Increment"
                        /\ \E k \in 1..3 : ~checkValue(calls[j].arg[k])}

\* C5 amended: the Count view over the request-result measure reports, for
\* each combination of valid tag values, the number of Increment calls made
\* with that combination, from one caller or interleaved from several, and
\* no record carries a tag value of another call; an Increment call with a
\* value the runtime rejects as a tag value is recorded without tags, under
\* the row of empty values, and no row of its own combination exists.
C5_CountPerCombination ==
  /\ \A code \in Codes, method \in Methods, host \in Hosts :
       IF checkValue(code) /\ checkValue(method) /\ checkValue(host)
       THEN CountData(ViewRequestResult, ResultRow(code, method, host))
              = Cardinality(IncrementsWith(code, method, host))
       ELSE CountData(ViewRequestResult, ResultRow(code, method, host)) = 0
  /\ CountData(ViewRequestResult, ResultRow(<<>>, <<>>, <<>>))
       = Cardinality(RejectedIncrements)
  /\ \A j \in DOMAIN calls :
       calls[j].op = "Increment" =>
         /\ calls[j].recorded
         /\ calls[j].tags \in
              {ResultRow(calls[j].arg[1], calls[j].arg[2], calls[j].arg[3]), Background}

\* C5 witness: two Increment calls with code 200 and one with code 500,
\* the one with 500 recorded between them, and the view reports 2 and 1.
C5_Witness ==
  /\ Len(calls) = 3
  /\ calls[1].arg = <<Code200, MethodGet, HostApi>>
  /\ calls[2].arg = <<Code500, MethodGet, HostApi>>
  /\ calls[3].arg = <<Code200, MethodGet, HostApi>>
  /\ CountData(ViewRequestResult, ResultRow(Code200, MethodGet, HostApi)) = 2
  /\ CountData(ViewRequestResult, ResultRow(Code500, MethodGet, HostApi)) = 1

----------------------------------------------------------------------------
(* C6 *)

\* C6: the calls made on a floatMetric adapter reach the runtime one
\* measurement per call, in the order of the calls, each with the value of
\* its call, against the adapter's measure and with the adapter's tag
\* mutators: Set(v) followed by Observe(v2) hands over v and then v2.
C6_SetThenObserve ==
  \A i \in DOMAIN adapters :
    adapters[i].type = "floatMetric" =>
      \A j \in CallsOn(i) :
        /\ calls[j].op \in {"Set", "Observe"}
        /\ calls[j].entry = "RecordWithTags"
        /\ calls[j].value = calls[j].arg[1]
        /\ calls[j].measure = adapters[i].measure.name
        /\ calls[j].mutators = adapters[i].mutators
        /\ \A k \in CallsOn(i) : calls[k].tags = calls[j].tags

\* C6 witness: Set(5) directly followed by Observe(3) on one adapter, which
\* reached the runtime as the values 5 and then 3
C6_Witness ==
  \E j \in DOMAIN calls :
    /\ j + 1 \in DOMAIN calls
    /\ calls[j].adapter = calls[j + 1].adapter
    /\ calls[j].op = "Set" /\ calls[j].arg = <<5>> /\ calls[j].value = 5
    /\ calls[j + 1].op = "Observe" /\ calls[j + 1].arg = <<3>> /\ calls[j + 1].value = 3
    /\ calls[j].recorded /\ calls[j + 1].recorded

----------------------------------------------------------------------------
(* C7 *)

\* the methods of each adapter type and the entry point they call
MethodsOf(type) ==
  CASE type = "latencyAdapter" -> {"Observe"}
    [] type = "resultAdapter" -> {"Increment"}
    [] type = "intMetric" -> {"Inc", "Dec"}
    [] type = "floatMetric" -> {"Observe", "Set"}

EntryOf(type) ==
  IF type \in {"latencyAdapter", "resultAdapter"} THEN "Record" ELSE "RecordWithTags"

\* C7: every adapter method call made so far has reached the runtime's
\* recording entry point exactly once, or is between its tag.New and its
\* stats.Record; each call in the log is one call of the entry point of its
\* adapter's type, for a method of that type, against the measure the
\* adapter was constructed with.
C7_OneRecordPerCall ==
  /\ Len(calls) + Cardinality(InFlight) = invoked
  /\ \A j \in DOMAIN calls :
       LET a == adapters[calls[j].adapter]
       IN /\ calls[j].op \in MethodsOf(a.type)
          /\ calls[j].entry = EntryOf(a.type)
          /\ calls[j].measure = a.measure.name

\* C7 witness: a client adapter call and a provider adapter call were made,
\* and the runtime was called once for each
C7_Witness ==
  /\ invoked = 2
  /\ Len(calls) = 2
  /\ \E j, k \in DOMAIN calls :
       calls[j].entry = "Record" /\ calls[k].entry = "RecordWithTags"

----------------------------------------------------------------------------
(* C8 *)

\* the step completes an adapter call in which the runtime signalled an error
ErrorStep == Len(calls') > Len(calls) /\ calls'[Len(calls')].err

\* C8: a call in which the runtime signals an error returns to the
\* collaborator like any other: it reaches the log once and is not retried,
\* no caller is left inside it, and the adapters and what they captured are
\* unchanged; and a call behaves the same before and after a failure: two
\* calls of one method of one adapter with the same arguments have the same
\* outcome.
C8_ErrorsSwallowed ==
  /\ [][ErrorStep =>
          /\ calls' = Append(calls, calls'[Len(calls')])
          /\ adapters' = adapters
          /\ made' = made
          /\ invoked' - Cardinality(InFlight') = Len(calls')
          /\ InFlight' \subseteq InFlight]_vars
  /\ [](\A j, k \in DOMAIN calls :
          (/\ calls[j].adapter = calls[k].adapter
           /\ calls[j].op = calls[k].op
           /\ calls[j].arg = calls[k].arg) => calls[j] = calls[k])

\* C8 witness: a call of an adapter failed in the runtime, and a later call
\* of the same adapter was recorded under its own tags
C8_Witness ==
  \E j, k \in DOMAIN calls :
    /\ j < k
    /\ calls[j].adapter = calls[k].adapter
    /\ calls[j].err
    /\ ~calls[k].err /\ calls[k].recorded /\ calls[k].tags # Background

----------------------------------------------------------------------------
(* C9 *)

\* The tags of the webhook measures, from their declarations' comments: the
\* requests measure has the webhook and the result, the latency measure the
\* webhook.
WebhookTagsOf(measure) ==
  IF measure = WebhookMeasureTotalRequests THEN {TagWebhook, TagSucceeded}
  ELSE IF measure = WebhookMeasureRequestLatency THEN {TagWebhook}
  ELSE {}

\* the tag keys a call's mutators insert
InsertedKeys(e) == {e.mutators[k].key : k \in DOMAIN e.mutators}

----------------------------------------------------------------------------
(* C10 *)

\* the outcome of a call, apart from the instance it was made on
Outcome(e) == [e EXCEPT !.adapter = 0]

\* C10: two adapters returned by the same factory method for the same name
\* are equal in measure and tag mutators, also after calls on either of
\* them, and the same call has the same outcome on both.
C10_TwinAdapters ==
  \A i, k \in DOMAIN adapters :
    (i # k /\ ProviderMade(i) /\ made[i] = made[k]) =>
      /\ adapters[i] = adapters[k]
      /\ \A j \in CallsOn(i) : \A l \in CallsOn(k) :
           (calls[j].op = calls[l].op /\ calls[j].arg = calls[l].arg)
             => Outcome(calls[j]) = Outcome(calls[l])

\* C10 witness: a factory was called twice with one name, and the same
\* method was then called on both adapters and recorded
C10_Witness ==
  \E i, k \in DOMAIN adapters :
    /\ i # k /\ ProviderMade(i) /\ made[i] = made[k]
    /\ \E j \in CallsOn(i) : \E l \in CallsOn(k) :
         calls[j].op = calls[l].op /\ calls[j].recorded /\ calls[l].recorded

----------------------------------------------------------------------------
(* C11 *)

\* the measures and the views of the whole process
DeclaredMeasures == ClientMeasures \o WebhookMeasures
DeclaredViews == ClientViews \o WebhookViews

\* C11: across the client-go metrics package and the webhook metrics package
\* no two declared measures share a name and no two declared views share a
\* name, and registering the two DefaultViews lists, in any order, any number
\* of times and at any point among the adapters' records, never has a view
\* refused for its name.
C11_NamesUnique ==
  /\ \A i, j \in DOMAIN DeclaredMeasures :
       i # j => DeclaredMeasures[i].name # DeclaredMeasures[j].name
  /\ \A i, j \in DOMAIN DeclaredViews :
       i # j => DeclaredViews[i].Name # DeclaredViews[j].Name
  /\ \A i \in DOMAIN DefaultViews : \A j \in DOMAIN WebhookDefaultViews :
       DefaultViews[i].Name # WebhookDefaultViews[j].Name
  /\ regErrs = {}
  /\ \A v, x \in registered : v.Name = x.Name => v = x

\* both DefaultViews lists have been registered: every view of both lists is
\* in the registry and none was refused
C11_Witness ==
  /\ Range(DefaultViews) \subseteq registered
  /\ Range(WebhookDefaultViews) \subseteq registered
  /\ Cardinality(registered) = Len(DefaultViews) + Len(WebhookDefaultViews)
  /\ regErrs = {}

----------------------------------------------------------------------------
(* C12 *)

\* the positions of the declared client-go views bound to this measure
ViewsBoundTo(measure) == {k \in DOMAIN ClientViews : ClientViews[k].Measure = measure}

\* the positions of DefaultViews that list this view
ListedAt(v) == {j \in DOMAIN DefaultViews : DefaultViews[j] = v}

\* a step in which a measurement reaches the runtime
RecordStep == Len(calls') > Len(calls) /\ calls'[Len(calls')].recorded

\* C12: the measure of every adapter that init registers or a factory returns
\* is the measure of exactly one declared client-go view, DefaultViews lists
\* every declared view exactly once, and once DefaultViews is registered every
\* measurement an adapter records is reported to exactly one registered view.
C12_EveryRecordAggregated ==
  /\ [](\A i \in DOMAIN adapters : Cardinality(ViewsBoundTo(adapters[i].measure)) = 1)
  /\ [](\A k \in DOMAIN ClientViews : Cardinality(ListedAt(ClientViews[k])) = 1)
  /\ [][(Range(DefaultViews) \subseteq registered /\ RecordStep)
          => Cardinality(calls'[Len(calls')].views) = 1]_vars

\* DefaultViews is registered, and a measurement recorded by an adapter of a
\* provider was reported to the one view of its measure
C12_Witness ==
  /\ Range(DefaultViews) \subseteq registered
  /\ \E i \in DOMAIN calls :
       /\ calls[i].recorded
       /\ ProviderMade(calls[i].adapter)
       /\ \E k \in DOMAIN ClientViews :
            /\ ClientViews[k].Measure = adapters[calls[i].adapter].measure
            /\ calls[i].views = {ClientViews[k].Name}

====
